---- MODULE Spec2Model ----
(***************************************************************************)
(* Style resolution of the mini web browser: the document tree             *)
(* (src/src/dom/node.rs, src/src/dom/element.rs) and the style resolver    *)
(* (src/src/style.rs).                                                     *)
(*                                                                         *)
(* Rust values are modelled as follows.                                    *)
(*   Option<T>        a sequence of length <= 1: <<>> is None, <<x>> Some  *)
(*   Vec<T>           a sequence                                           *)
(*   HashMap<K, V>    a function whose domain is the key set               *)
(*   String           a string                                             *)
(*   &'a NodeType     the NodeType record itself; its addr field is the    *)
(*                    place of that NodeType in the document tree (the     *)
(*                    path of child indexes from the root), so that two    *)
(*                    references are equal only when they point to the     *)
(*                    same node                                            *)
(***************************************************************************)
EXTENDS Integers, Sequences, FiniteSets, TLC

VARIABLES doc, sheet, self, op, ret, prev

vars == <<doc, sheet, self, op, ret, prev>>

(***************************************************************************)
(* Bounds.                                                                 *)
(***************************************************************************)
\* nodes of the document tree plus declarations of the stylesheet
MaxSize == 4

\* declared properties of a hand-built StyledNode given to display()
MaxProps == 2

(***************************************************************************)
(* dom/node.rs, dom/element.rs                                             *)
(***************************************************************************)
EmptyMap == [k \in {} |-> k]

ElementType(name, attributes) ==
    [variant |-> "Element", tag_name |-> name, attributes |-> attributes, addr |-> <<>>]

TextType(data) ==
    [variant |-> "Text", data |-> data, addr |-> <<>>]

Node(node_type, children) ==
    [node_type |-> node_type, children |-> children]

Element_new(name, attributes, children) ==
    Node(ElementType(name, attributes), children)

RECURSIVE inner_text_wrong_nested(_)
inner_text_wrong_nested(node) ==
    LET RECURSIVE join(_)
        join(nodes) ==
            IF nodes = <<>> THEN ""
            ELSE LET n == Head(nodes)
                 IN (IF n.node_type.variant = "Text"
                        THEN n.node_type.data \o inner_text_wrong_nested(n)
                        ELSE inner_text_wrong_nested(n))
                    \o join(Tail(nodes))
    IN join(node.children)

RECURSIVE inner_text(_)
inner_text(node) ==
    LET RECURSIVE join(_)
        join(nodes) ==
            IF nodes = <<>> THEN ""
            ELSE LET n == Head(nodes)
                 IN (IF n.node_type.variant = "Text"
                        THEN n.node_type.data
                        ELSE inner_text(n))
                    \o join(Tail(nodes))
    IN join(node.children)

(***************************************************************************)
(* css: values, declarations, selectors, rules (the css module is not      *)
(* among the sources; it is modelled from the data model of the            *)
(* specification).                                                         *)
(***************************************************************************)
Keyword(s) == [variant |-> "Keyword", s |-> s]

\* a CSSValue that is not the Keyword variant
OtherValue(s) == [variant |-> "Other", s |-> s]

Declaration(name, value) == [name |-> name, value |-> value]

Rule(selectors, declarations) ==
    [selectors |-> selectors, declarations |-> declarations]

Stylesheet_new(rules) == [rules |-> rules]

UniversalSelector == [variant |-> "UniversalSelector"]

TypeSelector(tag_name) == [variant |-> "TypeSelector", tag_name |-> tag_name]

AttributeSelector(tag_name, attribute, value) ==
    [variant |-> "AttributeSelector", tag_name |-> tag_name,
     attribute |-> attribute, value |-> value]

\* universal: every element; type: the elements of that tag name; attribute:
\* the elements of that tag name whose attribute has that value
SimpleSelector_matches(selector, node) ==
    LET t == node.node_type
    IN /\ t.variant = "Element"
       /\ CASE selector.variant = "UniversalSelector" -> TRUE
            [] selector.variant = "TypeSelector" -> t.tag_name = selector.tag_name
            [] selector.variant = "AttributeSelector" ->
                  /\ t.tag_name = selector.tag_name
                  /\ selector.attribute \in DOMAIN t.attributes
                  /\ t.attributes[selector.attribute] = selector.value

Rule_matches(rule, node) ==
    \E i \in 1..Len(rule.selectors) : SimpleSelector_matches(rule.selectors[i], node)

(***************************************************************************)
(* style.rs                                                                *)
(***************************************************************************)
None == <<>>

Some(x) == <<x>>

PropertyMap_new_stale ==
    IF op = "to_styled_node" /\ ret # None THEN ret[1].properties ELSE EmptyMap

PropertyMap_new == EmptyMap

insert_keep_first(map, k, v) ==
    [x \in DOMAIN map \cup {k} |-> IF x \in DOMAIN map THEN map[x] ELSE v]

\* HashMap::insert: the old value of the key, if any, is replaced
insert(map, k, v) ==
    [x \in DOMAIN map \cup {k} |-> IF x = k THEN v ELSE map[x]]

\* HashMap::get
get(map, k) == IF k \in DOMAIN map THEN Some(map[k]) ELSE None

StyledNode(node_type, properties, children) ==
    [node_type |-> node_type, properties |-> properties, children |-> children]

\* for declaration in &matched_rule.declarations { properties.insert(..) }
RECURSIVE apply_declarations(_, _)
apply_declarations(properties, declarations) ==
    IF declarations = <<>> THEN properties
    ELSE apply_declarations(
             insert(properties, Head(declarations).name, Head(declarations).value),
             Tail(declarations))

RECURSIVE apply_rules_unfiltered(_, _, _)
apply_rules_unfiltered(properties, node, rules) ==
    IF rules = <<>> THEN properties
    ELSE apply_rules_unfiltered(
             apply_declarations(properties, Head(rules).declarations),
             node, Tail(rules))

\* for matched_rule in stylesheet.rules.iter().filter(|r| r.matches(node)) { .. }
RECURSIVE apply_rules(_, _, _)
apply_rules(properties, node, rules) ==
    IF rules = <<>> THEN properties
    ELSE apply_rules(
             IF Rule_matches(Head(rules), node)
                THEN apply_declarations(properties, Head(rules).declarations)
                ELSE properties,
             node, Tail(rules))

set_initial_display_always(properties) ==
    insert(properties, "display", Keyword("inline"))

\* set the initial display property `inline` if not set
set_initial_display(properties) ==
    IF get(properties, "display") = None
       THEN insert(properties, "display", Keyword("inline"))
       ELSE properties

display_is_none_never(properties) ==
    get(properties, "display") = Some(Keyword("None"))

display_is_none(properties) ==
    get(properties, "display") = Some(Keyword("none"))

set_initial_font_weight_skipped(properties) ==
    IF get(properties, "display") = None
       THEN insert(properties, "font-weight", Keyword("normal"))
       ELSE properties

\* set the initial font-weight property `normal` if not set
set_initial_font_weight(properties) ==
    IF get(properties, "font-weight") = None
       THEN insert(properties, "font-weight", Keyword("normal"))
       ELSE properties

RECURSIVE to_styled_node(_, _)
RECURSIVE to_styled_nodes(_, _)

RECURSIVE to_styled_nodes_reversed(_, _)
to_styled_nodes_reversed(nodes, stylesheet) ==
    IF nodes = <<>> THEN <<>>
    ELSE to_styled_nodes_reversed(Tail(nodes), stylesheet)
         \o to_styled_node(Head(nodes), stylesheet)

to_styled_node_keeps_parent(node, stylesheet) ==
    LET children == to_styled_nodes(node.children, stylesheet)
        matched == apply_rules(PropertyMap_new, node, stylesheet.rules)
        properties == set_initial_display(matched)
    IN IF display_is_none(properties) /\ children = <<>>
          THEN None
          ELSE Some(StyledNode(node.node_type,
                               set_initial_font_weight(properties),
                               children))

to_styled_node(node, stylesheet) ==
    LET children == to_styled_nodes(node.children, stylesheet)
        matched == apply_rules(PropertyMap_new, node, stylesheet.rules)
        properties == set_initial_display(matched)
    IN IF display_is_none(properties)
          THEN None
          ELSE Some(StyledNode(node.node_type,
                               set_initial_font_weight(properties),
                               children))

\* nodes.iter().filter_map(|x| to_styled_node(x, stylesheet)).collect()
to_styled_nodes(nodes, stylesheet) ==
    IF nodes = <<>> THEN <<>>
    ELSE to_styled_node(Head(nodes), stylesheet)
         \o to_styled_nodes(Tail(nodes), stylesheet)

display_block_only(styled_node) ==
    LET d == get(styled_node.properties, "display")
    IN IF d # None /\ d[1].variant = "Keyword" /\ d[1].s = "block"
          THEN "Block"
          ELSE "Inline"

\* StyledNode::display
display(styled_node) ==
    LET d == get(styled_node.properties, "display")
    IN IF d # None /\ d[1].variant = "Keyword"
          THEN CASE d[1].s = "block" -> "Block"
                 [] d[1].s = "none" -> "None"
                 [] OTHER -> "Inline"
          ELSE "Inline"

\* the resolver that checks the node's own display before it resolves the children
RECURSIVE to_styled_node_short_circuit(_, _)
to_styled_node_short_circuit(node, stylesheet) ==
    LET matched == apply_rules(PropertyMap_new, node, stylesheet.rules)
        properties == set_initial_display(matched)
        RECURSIVE resolve_children(_)
        resolve_children(nodes) ==
            IF nodes = <<>> THEN <<>>
            ELSE to_styled_node_short_circuit(Head(nodes), stylesheet)
                 \o resolve_children(Tail(nodes))
    IN IF display_is_none(properties)
          THEN None
          ELSE Some(StyledNode(node.node_type,
                               set_initial_font_weight(properties),
                               resolve_children(node.children)))

(***************************************************************************)
(* Inputs: document trees and stylesheets of bounded size.                 *)
(***************************************************************************)
\* the node_type values of the bounded documents
NodeTypes ==
    {ElementType("div", EmptyMap), ElementType("p", "id" :> "test"),
     TextType("a"), TextType("b")}

\* the trees of exactly n nodes, and the sequences of trees of n nodes in all
RECURSIVE TreesOfSize(_)
RECURSIVE ForestsOfSize(_)
TreesOfSize(n) ==
    {Node(t, c) : t \in NodeTypes, c \in ForestsOfSize(n - 1)}

ForestsOfSize(n) ==
    IF n = 0 THEN {<<>>}
    ELSE UNION {{<<t>> \o f : t \in TreesOfSize(k), f \in ForestsOfSize(n - k)} :
                k \in 1..n}

\* the tree with every node_type given its place in the tree
RECURSIVE Place(_, _)
Place(node, path) ==
    Node([node.node_type EXCEPT !.addr = path],
         [i \in 1..Len(node.children) |-> Place(node.children[i], Append(path, i))])

Documents(n) == {Place(t, <<>>) : t \in TreesOfSize(n)}

SelectorLists == {<<UniversalSelector>>, <<TypeSelector("p")>>}

Declarations ==
    {Declaration("display", Keyword("none")),
     Declaration("display", Keyword("block")),
     Declaration("font-weight", Keyword("bold")),
     Declaration("color", Keyword("red"))}

RECURSIVE DeclarationLists(_)
DeclarationLists(n) ==
    IF n = 0 THEN {<<>>}
    ELSE {<<d>> \o l : d \in Declarations, l \in DeclarationLists(n - 1)}

\* the rule lists with n declarations in all, no rule without a declaration
RECURSIVE RuleLists(_)
RuleLists(n) ==
    IF n = 0 THEN {<<>>}
    ELSE UNION {{<<Rule(s, d)>> \o l :
                    s \in SelectorLists, d \in DeclarationLists(k), l \in RuleLists(n - k)} :
                k \in 1..n}

Stylesheets(n) == {Stylesheet_new(r) : r \in RuleLists(n)}

Inputs ==
    UNION {UNION {Documents(n) \X Stylesheets(k) : k \in 0..(MaxSize - n)} :
           n \in 1..MaxSize}

\* hand-built StyledNodes (the fields of StyledNode are public)
CSSValues ==
    {Keyword("block"), Keyword("none"), Keyword("inline"), Keyword("flex"),
     OtherValue("block"), OtherValue("none")}

PropertyNames == {"display", "font-weight", "color"}

PropertyMaps ==
    UNION {[names -> CSSValues] :
           names \in {n \in SUBSET PropertyNames : Cardinality(n) <= MaxProps}}

Receivers ==
    {StyledNode(t, m, <<>>) : t \in NodeTypes, m \in PropertyMaps}

(***************************************************************************)
(* The resolver called on a document and a stylesheet.                     *)
(***************************************************************************)
Init ==
    /\ \E input \in Inputs : doc = input[1] /\ sheet = input[2]
    /\ self = None
    /\ op = "init"
    /\ ret = None
    /\ prev = None

\* to_styled_node(&doc, &sheet); prev is the result of the call before, if any
CallToStyledNode ==
    /\ self = None
    /\ op' = "to_styled_node"
    /\ ret' = to_styled_node(doc, sheet)
    /\ prev' = IF op = "to_styled_node" THEN Some(ret) ELSE None
    /\ UNCHANGED <<doc, sheet, self>>

\* to_styled_nodes(&doc.children, &sheet)
CallToStyledNodes ==
    /\ self = None
    /\ op' = "to_styled_nodes"
    /\ ret' = to_styled_nodes(doc.children, sheet)
    /\ prev' = None
    /\ UNCHANGED <<doc, sheet, self>>

\* doc.inner_text()
CallInnerText ==
    /\ self = None
    /\ op' = "inner_text"
    /\ ret' = inner_text(doc)
    /\ prev' = None
    /\ UNCHANGED <<doc, sheet, self>>

Next ==
    \/ CallToStyledNode
    \/ CallToStyledNodes
    \/ CallInnerText

Spec == Init /\ [][Next]_vars

(***************************************************************************)
(* display() called on a StyledNode.                                       *)
(***************************************************************************)
InitDisplay ==
    /\ self \in {Some(r) : r \in Receivers}
    /\ doc = Node(self[1].node_type, <<>>)
    /\ sheet = Stylesheet_new(<<>>)
    /\ op = "init"
    /\ ret = None
    /\ prev = None

\* self.display()
CallDisplay ==
    /\ self # None
    /\ op' = "display"
    /\ ret' = display(self[1])
    /\ UNCHANGED <<doc, sheet, self, prev>>

NextDisplay == CallDisplay

SpecDisplay == InitDisplay /\ [][NextDisplay]_vars

(***************************************************************************)
(* What the claims speak of, stated without the resolver's loops.          *)
(***************************************************************************)
\* the nodes of the subtree rooted at node
RECURSIVE AllNodes(_)
AllNodes(node) ==
    {node} \cup UNION {AllNodes(node.children[i]) : i \in 1..Len(node.children)}

\* the StyledNodes of the tree rooted at styled_node
RECURSIVE AllStyled(_)
AllStyled(styled_node) ==
    {styled_node}
    \cup UNION {AllStyled(styled_node.children[i]) : i \in 1..Len(styled_node.children)}

\* the StyledNodes of an Option<StyledNode>
StyledIn(result) == IF result = None THEN {} ELSE AllStyled(result[1])

\* the node of the document a StyledNode refers to
NodeOf(styled_node) ==
    CHOOSE n \in AllNodes(doc) : n.node_type = styled_node.node_type

\* <<i, j>>: declaration j of rule i
Sites ==
    UNION {{<<i, j>> : j \in 1..Len(sheet.rules[i].declarations)} :
           i \in 1..Len(sheet.rules)}

DeclarationAt(ij) == sheet.rules[ij[1]].declarations[ij[2]]

\* the declarations of the rules that match the node
MatchingSites(node) == {ij \in Sites : Rule_matches(sheet.rules[ij[1]], node)}

\* those of them that declare name
Declaring(node, name) == {ij \in MatchingSites(node) : DeclarationAt(ij).name = name}

Later(a, b) == a[1] > b[1] \/ (a[1] = b[1] /\ a[2] >= b[2])

\* the value of the latest declaration of name among the rules matching the node
Winner(node, name) ==
    LET last == CHOOSE a \in Declaring(node, name) :
                    \A b \in Declaring(node, name) : Later(a, b)
    IN DeclarationAt(last).value

\* the property names declared by the rules matching the node
DeclaredNames(node) == {DeclarationAt(ij).name : ij \in MatchingSites(node)}

\* the cascaded display of the node is the keyword none
DisplayNone(node) ==
    /\ Declaring(node, "display") # {}
    /\ Winner(node, "display") = Keyword("none")

NodeTypesOf(seq) == [i \in 1..Len(seq) |-> seq[i].node_type]

\* the children of the node that are not pruned, in document order
Surviving(nodes) ==
    SelectSeq(nodes, LAMBDA c : to_styled_node(c, sheet) # None)

Resolved == op = "to_styled_node"

(***************************************************************************)
(* C1: every StyledNode of a tree that to_styled_node returns, the root    *)
(* and all descendants, has a display and a font-weight property.          *)
(***************************************************************************)
C1_DisplayAndFontWeightPresent ==
    Resolved =>
        \A s \in StyledIn(ret) : {"display", "font-weight"} \subseteq DOMAIN s.properties

\* a returned tree with a descendant for which no rule declares font-weight
C1_Witness ==
    /\ Resolved
    /\ ret # None
    /\ \E s \in StyledIn(ret) :
          /\ s # ret[1]
          /\ Declaring(NodeOf(s), "font-weight") = {}
          /\ Declaring(NodeOf(s), "display") # {}

(***************************************************************************)
(* C2: a node whose cascaded display is the keyword none resolves to None  *)
(* whatever its children are and is absent from the children of its        *)
(* parent; a node whose own display is not none resolves to Some, so that  *)
(* pruning never removes an ancestor of the pruned node.                   *)
(***************************************************************************)
C2_Pruning ==
    Resolved =>
        /\ ret = None <=> DisplayNone(doc)
        /\ \A n \in AllNodes(doc) :
              LET r == to_styled_node(n, sheet)
              IN /\ DisplayNone(n) =>
                       /\ r = None
                       /\ \A s \in StyledIn(ret) : s.node_type # n.node_type
                 /\ ~DisplayNone(n) =>
                       /\ r # None
                       /\ r[1].node_type = n.node_type
                       /\ \A i \in 1..Len(n.children) :
                             DisplayNone(n.children[i]) =>
                                \A k \in 1..Len(r[1].children) :
                                   r[1].children[k].node_type # n.children[i].node_type

\* the root is returned, one of its children is pruned although the child's
\* own child would resolve to Some
C2_Witness ==
    /\ Resolved
    /\ ret # None
    /\ \E i \in 1..Len(doc.children) :
          /\ DisplayNone(doc.children[i])
          /\ doc.children[i].children # <<>>
          /\ to_styled_nodes(doc.children[i].children, sheet) # <<>>
          /\ \A s \in StyledIn(ret) : s.node_type # doc.children[i].node_type

(***************************************************************************)
(* C3: when several declarations of the rules matching a node declare the  *)
(* same property, the resolved value is that of the latest one in          *)
(* stylesheet order (rule order, then declaration order within the rule);  *)
(* the kind of selector plays no part.                                     *)
(***************************************************************************)
C3_LastRuleWins ==
    Resolved =>
        \A s \in StyledIn(ret) :
            \A name \in DeclaredNames(NodeOf(s)) :
                s.properties[name] = Winner(NodeOf(s), name)

\* a type-selector rule and a later universal rule declare different values of
\* one property for a returned node, and the universal rule's value is retained
C3_Witness ==
    /\ Resolved
    /\ \E s \in StyledIn(ret) :
          \E a, b \in Declaring(NodeOf(s), "display") :
              /\ a[1] < b[1]
              /\ sheet.rules[a[1]].selectors = <<TypeSelector("p")>>
              /\ sheet.rules[b[1]].selectors = <<UniversalSelector>>
              /\ DeclarationAt(a).value # DeclarationAt(b).value
              /\ s.properties["display"] = DeclarationAt(b).value

(***************************************************************************)
(* C4: in a returned StyledNode, display is the keyword inline when no     *)
(* matching rule declares display, font-weight is the keyword normal when  *)
(* no matching rule declares font-weight, and a declared value is not      *)
(* replaced by the default.                                                *)
(***************************************************************************)
C4_Defaulting ==
    Resolved =>
        \A s \in StyledIn(ret) :
            LET n == NodeOf(s)
            IN /\ Declaring(n, "display") = {} =>
                     s.properties["display"] = Keyword("inline")
               /\ Declaring(n, "font-weight") = {} =>
                     s.properties["font-weight"] = Keyword("normal")
               /\ Declaring(n, "display") # {} =>
                     s.properties["display"] = Winner(n, "display")
               /\ Declaring(n, "font-weight") # {} =>
                     s.properties["font-weight"] = Winner(n, "font-weight")

\* a returned node with a declared display and the default font-weight, and
\* another with the default display
C4_Witness ==
    /\ Resolved
    /\ \E s, t \in StyledIn(ret) :
          /\ Declaring(NodeOf(s), "display") # {}
          /\ s.properties["display"] = Keyword("block")
          /\ s.properties["font-weight"] = Keyword("normal")
          /\ Declaring(NodeOf(t), "display") = {}
          /\ t.properties["display"] = Keyword("inline")

(***************************************************************************)
(* C5: the children of every returned StyledNode refer, in order, to the   *)
(* node_types of the source node's children that do not resolve to None,   *)
(* and to_styled_nodes returns the same selection of its input sequence.   *)
(***************************************************************************)
C5_OrderPreserved ==
    /\ Resolved =>
          \A s \in StyledIn(ret) :
              NodeTypesOf(s.children) = NodeTypesOf(Surviving(NodeOf(s).children))
    /\ op = "to_styled_nodes" =>
          NodeTypesOf(ret) = NodeTypesOf(Surviving(doc.children))

\* of two or more children, at least one is pruned and at least one is kept
C5_Witness ==
    /\ Resolved
    /\ ret # None
    /\ Len(ret[1].children) >= 1
    /\ Len(doc.children) > Len(ret[1].children)
    /\ Len(doc.children) >= 2

(***************************************************************************)
(* C6: inner_text.                                                         *)
(***************************************************************************)
\* the nodes of the subtree rooted at node, depth first, a node before its children
RECURSIVE Preorder(_)
Preorder(node) ==
    LET RECURSIVE each(_)
        each(nodes) ==
            IF nodes = <<>> THEN <<>> ELSE Preorder(Head(nodes)) \o each(Tail(nodes))
    IN <<node>> \o each(node.children)

RECURSIVE NodeAt(_, _)
NodeAt(node, path) ==
    IF path = <<>> THEN node ELSE NodeAt(node.children[Head(path)], Tail(path))

RECURSIVE JoinData(_)
JoinData(nodes) ==
    IF nodes = <<>> THEN "" ELSE Head(nodes).node_type.data \o JoinData(Tail(nodes))

IsText(node) == node.node_type.variant = "Text"

\* every node strictly between the document root and d is an Element
BelowElementsOnly(d) ==
    \A k \in 1..(Len(d.node_type.addr) - 1) :
        ~IsText(NodeAt(doc, SubSeq(d.node_type.addr, 1, k)))

\* C6 as claimed: inner_text is the concatenation, depth first and in document
\* order, of the data of every Text node of the subtree, the node itself and
\* Text nodes below Text nodes included.
C6_AllTextOfSubtree ==
    op = "inner_text" =>
        ret = JoinData(SelectSeq(Preorder(doc), IsText))

\* C6 as amended: inner_text is the concatenation, depth first and in document
\* order, of the data of the Text nodes that are proper descendants of the node
\* and lie below Element nodes only; the node's own data and the nodes below a
\* Text node contribute nothing, and neither do Element nodes themselves.
C6_TextBelowElements ==
    op = "inner_text" =>
        ret = JoinData(SelectSeq(Preorder(doc),
                  LAMBDA d : IsText(d) /\ d # doc /\ BelowElementsOnly(d)))

\* two different texts are joined in order, one of them from below an Element
\* child, and a Text below a Text child is left out
C6_Witness ==
    /\ op = "inner_text"
    /\ ret \in {"ab", "ba"}
    /\ \E i \in 1..Len(doc.children) :
          /\ IsText(doc.children[i])
          /\ doc.children[i].children # <<>>
          /\ IsText(doc.children[i].children[1])

(***************************************************************************)
(* C7: display() gives Block for the keyword block, None for the keyword   *)
(* none, and Inline for any other keyword, for a value that is not a       *)
(* keyword and for a missing display property.                             *)
(***************************************************************************)
C7_DisplayClassified ==
    op = "display" =>
        LET p == self[1].properties
            has == "display" \in DOMAIN p
        IN /\ (has /\ p["display"] = Keyword("block")) => ret = "Block"
           /\ (has /\ p["display"] = Keyword("none")) => ret = "None"
           /\ (~has \/ p["display"] \notin {Keyword("block"), Keyword("none")}) =>
                 ret = "Inline"

\* display() has classified a value none that is not a keyword
C7_Witness ==
    /\ op = "display"
    /\ "display" \in DOMAIN self[1].properties
    /\ self[1].properties["display"] = OtherValue("none")
    /\ ret = "Inline"

C9_ShortCircuitEquivalent ==
    Resolved => ret = to_styled_node_short_circuit(doc, sheet)

\* None is returned for a node whose children would have been kept
C9_Witness ==
    /\ Resolved
    /\ ret = None
    /\ to_styled_nodes(doc.children, sheet) # <<>>

(***************************************************************************)
(* C10: the keys of a returned PropertyMap are the property names declared *)
(* by the rules matching the node, with display and font-weight; the rules *)
(* that do not match change nothing, and a node that no rule matches has   *)
(* display inline and font-weight normal and nothing else.                 *)
(***************************************************************************)
\* the stylesheet without the rules that do not match the node
MatchingOnly(node) ==
    Stylesheet_new(SelectSeq(sheet.rules, LAMBDA r : Rule_matches(r, node)))

C10_OnlyMatchingRules ==
    Resolved =>
        \A s \in StyledIn(ret) :
            LET n == NodeOf(s)
            IN /\ DOMAIN s.properties = DeclaredNames(n) \cup {"display", "font-weight"}
               /\ MatchingSites(n) = {} =>
                     s.properties = [display |-> Keyword("inline")]
                                    @@ ("font-weight" :> Keyword("normal"))
               /\ Some(s.properties)
                     = [i \in {1} |-> to_styled_node(Node(n.node_type, <<>>),
                                                     MatchingOnly(n))[1].properties]

\* a returned node that no rule matches, under a stylesheet whose rule declares
\* a property the node does not get
C10_Witness ==
    /\ Resolved
    /\ \E s \in StyledIn(ret) :
          /\ MatchingSites(NodeOf(s)) = {}
          /\ \E ij \in Sites : DeclarationAt(ij).name = "color"
          /\ DOMAIN s.properties = {"display", "font-weight"}

====
